---- MODULE Spec2Model ----
(***************************************************************************)
(* A model of heatmappy's heatmap.py: the Heatmapper object, its default   *)
(* rasterizer PySideGreyHeatmapper, and the colourise / opacity /          *)
(* composite pipeline.                                                     *)
(*                                                                         *)
(* Images are records [mode, w, h, px]; px is the row-major sequence of    *)
(* the pixels, each a tuple of 8-bit channels (<<r,g,b,a>> for RGBA,       *)
(* <<r,g,b>> for RGB, <<l>> for L).  Opacity and alpha_strength are floats *)
(* in the code; the model draws them from dyadic rationals [num, den],     *)
(* for which the code's float products p * opacity are exact.              *)
(*                                                                         *)
(* Library behaviour the code relies on is modelled at the call site:      *)
(*   Qt      QImage.fill, QPainter SourceOver blending of a radial         *)
(*           gradient brush (BYTE_MUL arithmetic);                         *)
(*   Pillow  Image.open (lazy: the file stays open until load()),          *)
(*           convert, point, putalpha, alpha_composite;                    *)
(*   matplotlib  Colormap.__call__(uint8 array, bytes=True): a 256 entry   *)
(*           lookup table indexed by the grey value.                       *)
(***************************************************************************)
EXTENDS Integers, Sequences, FiniteSets, TLC

VARIABLES
    pc,        \* "new" (no Heatmapper yet) | "idle" | "paint" (inside _paint_points)
    config,    \* the Heatmapper's attributes: _opacity, cmap, grey_heatmapper (dm, point_strength)
    call,      \* the arguments of the call in progress / last call
    src,       \* the caller's points object: a list or a one-shot generator
    canvas,    \* base_image of PySideGreyHeatmapper.heatmap (Qt ARGB32 pixels)
    painted,   \* the points handed to _paint_point so far in this call, in order
    coloured,  \* the image _colourise returned (the input of _to_opacity)
    overlay,   \* the image _to_opacity returned
    result,    \* what the last constructor / call returned or raised
    heap,      \* the caller's own image objects (passed as base_img)
    handles,   \* number of files opened by Image.open and not yet closed
    opIn,      \* a direct call of the static _to_opacity: the caller's image
    opArgs,    \* its opacities
    opOut      \* and the images it returned

vars == <<pc, config, call, src, canvas, painted, coloured, overlay, result,
          heap, handles, opIn, opArgs, opOut>>

---------------------------------------------------------------------------
(* Bounds of the model *)

MaxW == 2          \* canvas widths 1..MaxW
MaxPoints == 2     \* at most this many points in one call
MaxOpen == 1       \* calls that leak a file handle stop once this many are open
MaxOpBits == 2     \* opacities are multiples of 1 / 2^MaxOpBits

None == "None"

---------------------------------------------------------------------------
(* Arithmetic *)

RECURSIVE Pow2(_)
Pow2(n) == IF n = 0 THEN 1 ELSE 2 * Pow2(n - 1)

\* Python int(): truncation toward zero of the rational n / d, d > 0
TruncDiv(n, d) == IF n >= 0 THEN n \div d ELSE -((-n) \div d)

Max(a, b) == IF a >= b THEN a ELSE b

\* Pillow CLIP8
Clip8(v) == IF v < 0 THEN 0 ELSE IF v > 255 THEN 255 ELSE v

\* floor of the square root
ISqrt(n) == CHOOSE r \in 0..n : r * r <= n /\ (r + 1) * (r + 1) > n

\* Qt BYTE_MUL on one channel: x * a / 255, rounded
ByteMul(x, a) == LET t == x * a + 128 IN (t + (t \div 256)) \div 256

\* Pillow SHIFTFORDIV255
ShiftForDiv255(a) == ((a \div 256) + a) \div 256

---------------------------------------------------------------------------
(* Images *)

NoImage == [mode |-> None, w |-> 0, h |-> 0, px |-> <<>>]

NoCanvas == [w |-> 0, h |-> 0, px |-> <<>>]

\* what a constructor or a call returned or raised
NoResult == [kind |-> "none", exc |-> None, img |-> NoImage]
Ok(img) == [kind |-> "image", exc |-> None, img |-> img]
Raise(e) == [kind |-> "error", exc |-> e, img |-> NoImage]

Pixels(img) == 1..(img.w * img.h)

PxX(img, k) == (k - 1) % img.w
PxY(img, k) == (k - 1) \div img.w

SameSize(a, b) == a.w = b.w /\ a.h = b.h

Alpha(img, k) == img.px[k][4]

Rgb(img, k) == <<img.px[k][1], img.px[k][2], img.px[k][3]>>

\* Image.convert('RGBA') of the background: always a new image
ConvertRGBA(img) ==
    [mode |-> "RGBA", w |-> img.w, h |-> img.h,
     px |-> [k \in Pixels(img) |->
               IF img.mode = "RGBA" THEN img.px[k]
               ELSE <<img.px[k][1], img.px[k][2], img.px[k][3], 255>>]]

\* Image.convert('L') of an RGBA image: Pillow's ITU-R 601-2 luma, alpha dropped
LumaOf(p) == (p[1] * 19595 + p[2] * 38470 + p[3] * 7471 + 32768) \div 65536

ConvertL(img) ==
    [mode |-> "L", w |-> img.w, h |-> img.h,
     px |-> [k \in Pixels(img) |-> <<LumaOf(img.px[k])>>]]

---------------------------------------------------------------------------
(* PySideGreyHeatmapper *)

\* __init__: self.point_strength = int(point_strength * 255)
PointStrength(alpha) == TruncDiv(alpha.num * 255, alpha.den)

\* heatmap: QImage(width, height, Format_ARGB32) filled with opaque white
BlackImage(width, height) ==
    [w |-> width, h |-> height,
     px |-> [k \in 1..(width * height) |-> <<0, 0, 0, 255>>]]
QImageFill(width, height) ==
    [w |-> width, h |-> height,
     px |-> [k \in 1..(width * height) |-> <<255, 255, 255, 255>>]]

\* _paint_point: the alpha of the brush QRadialGradient(x, y, dm/2) with stops
\* (0, QColor(0,0,0,max(point_strength,0))) and (1, QColor(0,0,0,0)) at a pixel
\* whose centre lies dist2 half-pixels from (x, y); the ellipse of diameter dm
\* covers the pixels closer than dm/2, the brush paints nothing outside it.
GradientAlpha(ps, dm, dist2) ==
    IF dist2 < dm THEN (Max(ps, 0) * (dm - dist2)) \div dm ELSE 0

\* distance, in half pixels, of pixel k's centre from the point
Dist2(img, k, point) ==
    LET dx == 2 * PxX(img, k) + 1 - 2 * point[1]
        dy == 2 * PxY(img, k) + 1 - 2 * point[2]
    IN  ISqrt(dx * dx + dy * dy)

\* QPainter's default CompositionMode_SourceOver of the premultiplied source
\* (a, 0, 0, 0) on a destination pixel: d' = s + BYTE_MUL(d, 255 - a)
OverwriteBlack(p, a) ==
    IF a = 0 THEN p ELSE <<255 - a, 255 - a, 255 - a, 255>>
SourceOverBlack(p, a) ==
    <<ByteMul(p[1], 255 - a), ByteMul(p[2], 255 - a), ByteMul(p[3], 255 - a),
      a + ByteMul(p[4], 255 - a)>>

\* _paint_point(point, painter): the painter's image after the call, and the
\* rasterizer's own attributes (self.dm, self.point_strength) after it
PaintPointStoringClamp(self, img, point) ==
    [self |-> [self EXCEPT !.point_strength = Max(@, 0)],
     img |-> [img EXCEPT !.px = [k \in Pixels(img) |->
        SourceOverBlack(img.px[k],
            GradientAlpha(self.point_strength, self.dm, Dist2(img, k, point)))]]]
PaintPoint(self, img, point) ==
    [self |-> self,
     img |-> [img EXCEPT !.px = [k \in Pixels(img) |->
        SourceOverBlack(img.px[k],
            GradientAlpha(self.point_strength, self.dm, Dist2(img, k, point)))]]]

\* _qimage_to_pil_image(base_image).convert('L'): the PNG round trip keeps
\* the ARGB32 pixels, Pillow reads them as RGBA
QImageToPil(qimg) == [mode |-> "RGBA", w |-> qimg.w, h |-> qimg.h, px |-> qimg.px]

GreyField(qimg) == ConvertL(QImageToPil(qimg))

---------------------------------------------------------------------------
(* Colour maps: the byte lookup table self.cmap(arr, bytes=True) indexes with
   the grey value.  "default" and "reveal" stand for the two bundled scale
   images, "opaque" for a LinearSegmentedColormap instance passed in. *)

CmapLookup(cmap, g) ==
    CASE cmap = "default" -> <<255, g, 0, 255 - g>>
      [] cmap = "reveal"  -> <<0, 0, 0, g>>
      [] OTHER            -> <<255 - g, 0, g, 255>>

\* _colourise(img)
Colourise(cmap, grey) ==
    [mode |-> "RGBA", w |-> grey.w, h |-> grey.h,
     px |-> [k \in Pixels(grey) |-> CmapLookup(cmap, grey.px[k][1])]]

\* alpha.point(lambda p: int(p * opacity)): Pillow builds the 256 entry table
\* and clips each entry to 8 bits
ScaleAlphaConstant(p, opacity) == Clip8(TruncDiv(255 * opacity.num, opacity.den))
ScaleAlpha(p, opacity) == Clip8(TruncDiv(p * opacity.num, opacity.den))

\* _to_opacity(img, opacity): img.copy(), then putalpha on the copy;
\* input is the caller's image after the call, output the returned image
ToOpacityInPlace(img, opacity) ==
    LET out == [img EXCEPT !.px = [k \in Pixels(img) |->
                  <<img.px[k][1], img.px[k][2], img.px[k][3],
                    ScaleAlpha(img.px[k][4], opacity)>>]]
    IN  [input |-> out, output |-> out]
ToOpacity(img, opacity) ==
    [input |-> img,
     output |-> [img EXCEPT !.px = [k \in Pixels(img) |->
                  <<img.px[k][1], img.px[k][2], img.px[k][3],
                    ScaleAlpha(img.px[k][4], opacity)>>]]]

\* Pillow's AlphaComposite.c on one pixel (PRECISION_BITS = 7)
CompositePixel(dst, s) ==
    IF s[4] = 0 THEN dst
    ELSE LET blend   == dst[4] * (255 - s[4])
             outa255 == s[4] * 255 + blend
             coef1   == (s[4] * 255 * 255 * 128) \div outa255
             coef2   == 255 * 128 - coef1
             Ch(i)   == ShiftForDiv255(s[i] * coef1 + dst[i] * coef2 + 128 * 128)
                            \div 128
         IN  <<Ch(1), Ch(2), Ch(3), ShiftForDiv255(outa255 + 128)>>

\* Image.alpha_composite(im1, im2): a new image, or ValueError("images do
\* not match") when the sizes differ
AlphaCompositeCropped(im1, im2) ==
    Ok([im1 EXCEPT !.px = [k \in Pixels(im1) |->
          IF k \in Pixels(im2) THEN CompositePixel(im1.px[k], im2.px[k])
          ELSE im1.px[k]]])
AlphaComposite(im1, im2) ==
    IF ~SameSize(im1, im2) THEN Raise("ValueError")
    ELSE Ok([im1 EXCEPT !.px = [k \in Pixels(im1) |->
               CompositePixel(im1.px[k], im2.px[k])]])

---------------------------------------------------------------------------
(* The world around the Heatmapper: files, the caller's images, the inputs *)

Rat(n, d) == [num |-> n, den |-> d]

\* Image files by path; any other path does not exist.  All are single-frame
\* files, for which Pillow's load() closes the file it opened.
ImageFiles == {"default.png", "reveal.png", "rgb_scale.png", "bg_a.png", "bg_b.png"}

UniformImage(mode, width, height, pixel) ==
    [mode |-> mode, w |-> width, h |-> height,
     px |-> [k \in 1..(width * height) |-> pixel]]

\* the decoded content of the background files
FileImage(path) ==
    IF path = "bg_a.png" THEN UniformImage("RGB", 1, 1, <<10, 200, 30>>)
    ELSE UniformImage("RGBA", 2, 1, <<90, 60, 240, 128>>)

FileMode(path) == IF path = "rgb_scale.png" THEN "RGB" ELSE "RGBA"

\* the images the caller holds and may pass as base_img
InitialHeap ==
    [id \in {"imgA", "imgB"} |->
       IF id = "imgA" THEN UniformImage("RGBA", 1, 1, <<0, 100, 200, 64>>)
       ELSE UniformImage("RGB", 2, 1, <<250, 120, 5>>)]

Widths == 1..MaxW
Heights == {1, 2}

PointSet == {<<0, 0>>, <<1, 0>>}

RECURSIVE SeqsUpTo(_, _)
SeqsUpTo(S, n) ==
    IF n = 0 THEN {<<>>}
    ELSE LET shorter == SeqsUpTo(S, n - 1)
         IN  shorter \cup {Append(q, x) : q \in {r \in shorter : Len(r) = n - 1}, x \in S}

PointSeqs == SeqsUpTo(PointSet, MaxPoints)

\* constructor arguments the model draws
ColoursArgs == {"default", "reveal", "opaque", "rgb_scale.png", "missing.png"}
OpacityArgs == {Rat(0, 1), Rat(1, 2), Rat(3, 2)}
DiameterArgs == {2, 4}
StrengthArgs == {Rat(1, 1), Rat(1, 2), Rat(-1, 2)}

\* the ranges the documentation gives for the configuration
InUnit(q) == 0 <= q.num /\ q.num <= q.den

---------------------------------------------------------------------------
(* The points argument: a list, or a one-shot generator.  pos is the number
   of items the current iterator has yielded, iters counts the iter() calls
   made on the object. *)

NewSource(items, lazy) == [items |-> items, lazy |-> lazy, pos |-> 0, iters |-> 0]

\* iter(points): a list gives a fresh iterator, a generator gives itself
IterOpen(s) == [s EXCEPT !.iters = @ + 1, !.pos = IF s.lazy THEN @ ELSE 0]

\* running an iterator to its end
Drain(s) == [s EXCEPT !.pos = Len(s.items)]

HasNext(s) == s.pos < Len(s.items)

NextItem(s) == s.items[s.pos + 1]

Advance(s) == [s EXCEPT !.pos = @ + 1]

\* _paint_points: `for point in points` opens the one iterator of the call
LoopOpenAfterCount(s) == IterOpen(Drain(IterOpen(s)))
LoopOpen(s) == IterOpen(s)

---------------------------------------------------------------------------
(* Heatmapper *)

NoConfig == [opacity |-> Rat(0, 1), cmap |-> None, dm |-> 0, point_strength |-> 0,
             alpha_strength |-> Rat(0, 1)]

NoCall == [entry |-> None, width |-> 0, height |-> 0, points |-> <<>>,
           lazy |-> FALSE, base_path |-> None, base_img |-> None]

\* __init__: scale_path = files.get(colours) or colours
ScalePath(colours) ==
    CASE colours = "default" -> "default.png"
      [] colours = "reveal"  -> "reveal.png"
      [] OTHER               -> colours

\* Image.open(path) followed by an operation that loads the image (resize,
\* convert): open files before and after.  Image.open opens the file and
\* leaves it open; load() closes it once the pixels are read.
OpenedAndLoaded(n) == (n + 1) - 1

\* Image.open(path) followed by .size alone: the file stays open
OpenedOnly(n) == n + 1

\* _cmap_from_image_path(img_path): Image.open raises for a missing file;
\* resize() loads the image, which closes the file; the unpacking
\* (r, g, b, a) raises ValueError for an image without an alpha band.
\* open is the number of open files after the call, given n before it.
CmapFromImagePath(img_path, n) ==
    IF img_path \notin ImageFiles
    THEN [kind |-> "error", exc |-> "FileNotFoundError", open |-> n]
    ELSE IF FileMode(img_path) # "RGBA"
    THEN [kind |-> "error", exc |-> "ValueError", open |-> OpenedAndLoaded(n)]
    ELSE [kind |-> "cmap",
          exc |-> IF img_path = "default.png" THEN "default" ELSE "reveal",
          open |-> OpenedAndLoaded(n)]

\* __init__ up to self.cmap: a LinearSegmentedColormap instance is taken as is
CmapOf(colours, n) ==
    IF colours = "opaque" THEN [kind |-> "cmap", exc |-> "opaque", open |-> n]
    ELSE CmapFromImagePath(ScalePath(colours), n)

\* __init__: the attributes of the constructed object; no argument is checked
NewConfig(cmap, opacity, point_diameter, alpha_strength) ==
    [opacity |-> opacity, cmap |-> cmap, dm |-> point_diameter,
     point_strength |-> PointStrength(alpha_strength),
     alpha_strength |-> alpha_strength]

\* heatmap, from `if not (base_path or base_img)`: the returned value and the
\* caller's images after the call
CompositeInPlace(background, heatmap) ==
    LET r == AlphaComposite(ConvertRGBA(background), heatmap)
    IN  [background |-> IF r.kind = "image" THEN r.img ELSE background, result |-> r]
CompositeOnBackground(background, heatmap) ==
    [background |-> background,
     result |-> AlphaComposite(ConvertRGBA(background), heatmap)]

HeatmapReturn(c, hp, heatmap) ==
    IF c.base_path = None /\ c.base_img = None
    THEN [result |-> Ok(heatmap), heap |-> hp]
    ELSE IF c.base_path # None
    THEN IF c.base_path \notin ImageFiles
         THEN [result |-> Raise("FileNotFoundError"), heap |-> hp]
         ELSE [result |-> CompositeOnBackground(FileImage(c.base_path), heatmap).result,
               heap |-> hp]
    ELSE LET r == CompositeOnBackground(hp[c.base_img], heatmap)
         IN  [result |-> r.result, heap |-> [hp EXCEPT ![c.base_img] = r.background]]

\* heatmap: the open files after `Image.open(base_path) if base_path else
\* base_img` and background.convert('RGBA'), given n before
HeatmapOpenFiles(c, n) ==
    IF c.base_path # None /\ c.base_path \in ImageFiles THEN OpenedAndLoaded(n) ELSE n

---------------------------------------------------------------------------
(* Actions *)

Init ==
    /\ pc = "new"
    /\ config = NoConfig
    /\ call = NoCall
    /\ src = NewSource(<<>>, FALSE)
    /\ canvas = NoCanvas
    /\ painted = <<>>
    /\ coloured = NoImage
    /\ overlay = NoImage
    /\ result = NoResult
    /\ heap = InitialHeap
    /\ handles = 0
    /\ opIn = NoImage
    /\ opArgs = <<>>
    /\ opOut = <<>>

\* Heatmapper(point_diameter, alpha_strength, opacity, colours)
Construct(colours, opacity, point_diameter, alpha_strength) ==
    /\ pc = "new"
    /\ LET cm == CmapOf(colours, handles)
       IN  /\ handles' = cm.open
           /\ IF cm.kind = "error"
              THEN /\ result' = Raise(cm.exc)
                   /\ UNCHANGED <<pc, config>>
              ELSE /\ config' = NewConfig(cm.exc, opacity, point_diameter, alpha_strength)
                   /\ result' = NoResult
                   /\ pc' = "idle"
    /\ UNCHANGED <<call, src, canvas, painted, coloured, overlay, heap,
                   opIn, opArgs, opOut>>

\* heatmap() up to the loop of _paint_points: the canvas is created and
\* filled, the painter begun, the iteration over points opened
EnterHeatmap(c) ==
    /\ call' = c
    /\ canvas' = QImageFill(c.width, c.height)
    /\ src' = LoopOpen(NewSource(c.points, c.lazy))
    /\ painted' = <<>>
    /\ coloured' = NoImage
    /\ overlay' = NoImage
    /\ result' = NoResult
    /\ pc' = "paint"

\* heatmap(width, height, points, base_path, base_img)
CallHeatmap(width, height, points, lazy, base_path, base_img) ==
    /\ pc = "idle"
    /\ EnterHeatmap([entry |-> "heatmap", width |-> width, height |-> height,
                     points |-> points, lazy |-> lazy,
                     base_path |-> base_path, base_img |-> base_img])
    /\ UNCHANGED <<config, heap, handles, opIn, opArgs, opOut>>

\* heatmap_on_img(points, img)
CallHeatmapOnImg(points, lazy, img) ==
    /\ pc = "idle"
    /\ EnterHeatmap([entry |-> "heatmap_on_img",
                     width |-> heap[img].w, height |-> heap[img].h,
                     points |-> points, lazy |-> lazy,
                     base_path |-> None, base_img |-> img])
    /\ UNCHANGED <<config, heap, handles, opIn, opArgs, opOut>>

\* heatmap_on_base_path(points, base_path): Image.open(base_path).size reads
\* the size only; the file it opened is never loaded and never closed
CallHeatmapOnBasePath(points, lazy, base_path) ==
    /\ pc = "idle"
    /\ IF base_path \notin ImageFiles
       THEN /\ call' = [entry |-> "heatmap_on_base_path", width |-> 0, height |-> 0,
                        points |-> points, lazy |-> lazy,
                        base_path |-> base_path, base_img |-> None]
            /\ src' = NewSource(points, lazy)
            /\ canvas' = NoCanvas
            /\ painted' = <<>>
            /\ coloured' = NoImage
            /\ overlay' = NoImage
            /\ result' = Raise("FileNotFoundError")
            /\ pc' = "done"
            /\ UNCHANGED handles
       ELSE /\ handles < MaxOpen
            /\ handles' = OpenedOnly(handles)
            /\ EnterHeatmap([entry |-> "heatmap_on_base_path",
                             width |-> FileImage(base_path).w,
                             height |-> FileImage(base_path).h,
                             points |-> points, lazy |-> lazy,
                             base_path |-> base_path, base_img |-> None])
    /\ UNCHANGED <<config, heap, opIn, opArgs, opOut>>

\* one turn of the loop in _paint_points
PaintStep ==
    /\ pc = "paint"
    /\ HasNext(src)
    /\ LET r == PaintPoint(config, canvas, NextItem(src))
       IN  /\ canvas' = r.img
           /\ config' = r.self
    /\ painted' = Append(painted, NextItem(src))
    /\ src' = Advance(src)
    /\ UNCHANGED <<pc, call, coloured, overlay, result, heap, handles,
                   opIn, opArgs, opOut>>

\* the rest of heatmap() once the points are exhausted: painter.end(), the
\* conversion to a grey Pillow image, _colourise, _to_opacity, and the
\* optional composite.  The background file opened from base_path is
\* loaded by convert('RGBA'), which closes it.
Finish ==
    /\ pc = "paint"
    /\ ~HasNext(src)
    /\ LET op  == ToOpacity(Colourise(config.cmap, GreyField(canvas)), config.opacity)
           ret == HeatmapReturn(call, heap, op.output)
       IN  /\ coloured' = op.input
           /\ overlay' = op.output
           /\ result' = ret.result
           /\ heap' = ret.heap
    /\ handles' = HeatmapOpenFiles(call, handles)
    /\ pc' = "done"
    /\ UNCHANGED <<config, call, src, canvas, painted, opIn, opArgs, opOut>>

\* the caller takes the returned image or the exception; the locals of the
\* call are gone
Return ==
    /\ pc = "done"
    /\ pc' = "idle"
    /\ call' = NoCall
    /\ src' = NewSource(<<>>, FALSE)
    /\ canvas' = NoCanvas
    /\ painted' = <<>>
    /\ coloured' = NoImage
    /\ overlay' = NoImage
    /\ result' = NoResult
    /\ UNCHANGED <<config, heap, handles, opIn, opArgs, opOut>>

\* the runtime's garbage collector closes a file no image refers to any more,
\* at a time of its choosing
Finalize ==
    /\ handles > 0
    /\ handles' = handles - 1
    /\ UNCHANGED <<pc, config, call, src, canvas, painted, coloured, overlay,
                   result, heap, opIn, opArgs, opOut>>

BasePaths == {"bg_a.png", "bg_b.png", "missing.png"}

\* the (base_path, base_img) arguments of heatmap()
BaseArgs ==
    {<<None, None>>, <<"bg_b.png", None>>, <<"missing.png", None>>,
     <<None, "imgA">>, <<None, "imgB">>, <<"bg_b.png", "imgA">>}

Next ==
    \/ \E colours \in ColoursArgs, opacity \in OpacityArgs,
          point_diameter \in DiameterArgs, alpha_strength \in StrengthArgs :
           Construct(colours, opacity, point_diameter, alpha_strength)
    \/ \E width \in Widths, height \in Heights, points \in PointSeqs,
          lazy \in BOOLEAN, base \in BaseArgs :
           CallHeatmap(width, height, points, lazy, base[1], base[2])
    \/ \E points \in PointSeqs, lazy \in BOOLEAN, img \in DOMAIN InitialHeap :
           CallHeatmapOnImg(points, lazy, img)
    \/ \E points \in PointSeqs, lazy \in BOOLEAN, base_path \in BasePaths :
           CallHeatmapOnBasePath(points, lazy, base_path)
    \/ PaintStep
    \/ Finish
    \/ Return
    \/ Finalize

Spec == Init /\ [][Next]_vars

---------------------------------------------------------------------------
(* heatmap() as one function of the configuration and the arguments *)

RECURSIVE PaintAll(_, _, _)
PaintAll(self, img, points) ==
    IF points = <<>> THEN img
    ELSE PaintAll(self, PaintPoint(self, img, Head(points)).img, Tail(points))

\* PySideGreyHeatmapper.heatmap(width, height, points)
GreyHeatmap(self, width, height, points) ==
    GreyField(PaintAll(self, QImageFill(width, height), points))

\* Heatmapper.heatmap(width, height, points, base_path, base_img), the
\* caller's images being hp
HeatmapOf(self, c, hp) ==
    HeatmapReturn(c, hp,
        ToOpacity(Colourise(self.cmap, GreyHeatmap(self, c.width, c.height, c.points)),
                  self.opacity).output).result

---------------------------------------------------------------------------
(* Direct calls of the static method _to_opacity: a caller applies it with
   o1, applies it to the outcome with o2, and applies it to the original
   with the product o1 * o2. *)

UnitOpacities == {Rat(n, Pow2(MaxOpBits)) : n \in 0..Pow2(MaxOpBits)}

Mul(a, b) == Rat(a.num * b.num, a.den * b.den)

DirectColours == {<<255, 0, 0>>, <<12, 200, 99>>}

InitOpacity ==
    /\ pc = "direct"
    /\ config = NoConfig
    /\ call = NoCall
    /\ src = NewSource(<<>>, FALSE)
    /\ canvas = NoCanvas
    /\ painted = <<>>
    /\ coloured = NoImage
    /\ overlay = NoImage
    /\ result = NoResult
    /\ heap = InitialHeap
    /\ handles = 0
    /\ \E p \in 0..255, c \in DirectColours, o1 \in UnitOpacities, o2 \in UnitOpacities :
         /\ opIn = [mode |-> "RGBA", w |-> 2, h |-> 1,
                    px |-> << <<c[1], c[2], c[3], p>>, <<c[3], c[1], c[2], 255 - p>> >>]
         /\ opArgs = <<o1, o2, opIn.px>>
    /\ opOut = <<>>

DirectFirst ==
    /\ pc = "direct"
    /\ Len(opOut) = 0
    /\ LET r == ToOpacity(opIn, opArgs[1])
       IN  /\ opIn' = r.input
           /\ opOut' = <<r.output>>
    /\ UNCHANGED <<pc, config, call, src, canvas, painted, coloured, overlay,
                   result, heap, handles, opArgs>>

DirectSecond ==
    /\ pc = "direct"
    /\ Len(opOut) = 1
    /\ LET r == ToOpacity(opOut[1], opArgs[2])
       IN  opOut' = <<r.input, r.output>>
    /\ UNCHANGED <<pc, config, call, src, canvas, painted, coloured, overlay,
                   result, heap, handles, opIn, opArgs>>

DirectCombined ==
    /\ pc = "direct"
    /\ Len(opOut) = 2
    /\ LET r == ToOpacity(opIn, Mul(opArgs[1], opArgs[2]))
       IN  /\ opIn' = r.input
           /\ opOut' = Append(opOut, r.output)
    /\ UNCHANGED <<pc, config, call, src, canvas, painted, coloured, overlay,
                   result, heap, handles, opArgs>>

NextOpacity == DirectFirst \/ DirectSecond \/ DirectCombined

SpecOpacity == InitOpacity /\ [][NextOpacity]_vars

---------------------------------------------------------------------------
(* Properties *)

\* a call that got past its entry and into heatmap()
InHeatmap == call.entry # None /\ canvas # NoCanvas

HasBackground == call.base_path # None \/ call.base_img # None

BackgroundExists == call.base_path # None => call.base_path \in ImageFiles

\* the background heatmap() uses: `Image.open(base_path) if base_path else base_img`
CallBackground ==
    IF call.base_path # None THEN FileImage(call.base_path)
    ELSE InitialHeap[call.base_img]

SizeMismatch ==
    /\ pc = "done" /\ InHeatmap /\ HasBackground /\ BackgroundExists
    /\ (CallBackground.w # call.width \/ CallBackground.h # call.height)

\* C1 as stated: heatmap() with a background whose size differs from (width,
\* height) fails with a DimensionMismatchError.
C1_DimensionMismatchError ==
    SizeMismatch => result = Raise("DimensionMismatchError")

\* C1 amended: heatmap() with a background whose size differs from (width,
\* height) raises the ValueError of Image.alpha_composite, once the overlay
\* has been rasterized; it returns no image and leaves the background as it
\* was (no resize).
C1_MismatchRaisesValueError ==
    SizeMismatch =>
        /\ result = Raise("ValueError")
        /\ painted = call.points
        /\ overlay.w = call.width /\ overlay.h = call.height
        /\ heap = InitialHeap

C1_Witness ==
    /\ SizeMismatch
    /\ call.entry = "heatmap"
    /\ call.base_img = "imgB"
    /\ call.width = 1
    /\ result.kind = "error"

\* C2: constructing a Heatmapper with an opacity outside [0,1], a
\* point_diameter <= 0 or an alpha_strength outside [0,1] fails in the
\* constructor, so that no Heatmapper exists, and no heatmap() call runs, with
\* such a configuration.
C2_ValidatedAtConstruction ==
    pc # "new" =>
        /\ InUnit(config.opacity)
        /\ config.dm > 0
        /\ InUnit(config.alpha_strength)

\* C3: between calls, and when a call has returned or raised, no file the
\* library opened is still open.
C3_NoHandleLeftOpen ==
    pc \in {"new", "idle", "done"} => handles = 0

\* C4 as stated: in every call of heatmap(), heatmap_on_img() and
\* heatmap_on_base_path() the points are iterated exactly once.
C4_IteratedExactlyOnce ==
    pc = "done" => src.iters = 1 /\ painted = call.points

\* C4 amended: the points are never iterated a second time; a call that
\* reaches heatmap() iterates them exactly once, reading each point once and
\* in order, and its outcome is that of the same call given the points as a
\* list; heatmap_on_base_path() with a missing file raises before it reads
\* any point.
C4_IteratedOnceInHeatmap ==
    /\ src.iters <= 1
    /\ painted = SubSeq(src.items, 1, src.pos)
    /\ pc \in {"paint", "done"} /\ InHeatmap =>
          /\ src.iters = 1
          /\ src.items = call.points
    /\ pc = "done" /\ InHeatmap =>
          /\ painted = call.points
          /\ result = HeatmapOf(config, [call EXCEPT !.lazy = FALSE], InitialHeap)
    /\ pc = "done" /\ ~InHeatmap =>
          /\ call.entry = "heatmap_on_base_path"
          /\ result = Raise("FileNotFoundError")
          /\ src.iters = 0 /\ painted = <<>>

C4_Witness ==
    /\ pc = "done" /\ InHeatmap
    /\ call.lazy
    /\ Len(call.points) = 2
    /\ call.points[1] # call.points[2]
    /\ result.kind = "image"

\* C5: once constructed, the configuration never changes, whatever is
\* called; and the outcome of a call is a function of that configuration and
\* of the call's own arguments.
C5_ConfigurationFrozen ==
    /\ [][pc # "new" => config' = config]_vars
    /\ [](pc = "done" /\ InHeatmap => result = HeatmapOf(config, call, InitialHeap))

C5_Witness ==
    /\ pc = "done" /\ InHeatmap
    /\ call.entry = "heatmap_on_img"
    /\ handles > 0
    /\ config.point_strength < 0
    /\ Len(painted) = 2
    /\ result.kind = "image"

\* C6: with no points, and a colour map whose colour for grey 255 has alpha
\* 0, the grey field is 255 everywhere and the heatmap is fully transparent,
\* whatever the opacity.
C6_NoPointsTransparent ==
    (pc = "done" /\ InHeatmap /\ call.points = <<>>
       /\ CmapLookup(config.cmap, 255)[4] = 0) =>
        /\ overlay.w = call.width /\ overlay.h = call.height
        /\ \A k \in Pixels(overlay) :
              /\ GreyField(canvas).px[k] = <<255>>
              /\ Alpha(overlay, k) = 0
        /\ (~HasBackground => result = Ok(overlay))

C6_Witness ==
    /\ pc = "done" /\ InHeatmap /\ call.points = <<>>
    /\ CmapLookup(config.cmap, 255)[4] = 0
    /\ ~InUnit(config.opacity)
    /\ call.width = 2
    /\ result.kind = "image"

\* C7: the grey field stays within 0..255, and painting one more point,
\* a repeated one included, makes no pixel lighter.
C7_PaintingOnlyDarkens ==
    [][(pc = "paint" /\ pc' = "paint" /\ painted' # painted) =>
          \A k \in Pixels(canvas) :
             /\ GreyField(canvas').px[k][1] \in 0..255
             /\ GreyField(canvas').px[k][1] <= GreyField(canvas).px[k][1]]_vars

C7_Witness ==
    /\ pc = "paint"
    /\ Len(painted) = 2 /\ painted[1] = painted[2]
    /\ config.point_strength > 0
    /\ \E k \in Pixels(canvas) :
          GreyField(canvas).px[k][1] <
             GreyHeatmap(config, call.width, call.height, <<painted[1]>>).px[k][1]

FullyTransparent(img) == \A k \in Pixels(img) : Alpha(img, k) = 0

\* C8: heatmap() with a background of the canvas' size and an overlay of
\* alpha 0 everywhere returns the background converted to RGBA, pixel for
\* pixel, and the caller's image is as it was.
C8_TransparentOverlayKeepsBackground ==
    (pc = "done" /\ InHeatmap /\ HasBackground /\ BackgroundExists
       /\ SameSize(CallBackground, overlay) /\ FullyTransparent(overlay)) =>
        /\ result.kind = "image"
        /\ result.img.mode = "RGBA"
        /\ \A k \in Pixels(overlay) :
              /\ Rgb(result.img, k) = Rgb(CallBackground, k)
              /\ Alpha(result.img, k) =
                   IF CallBackground.mode = "RGBA" THEN Alpha(CallBackground, k) ELSE 255
        /\ heap = InitialHeap

C8_Witness ==
    /\ pc = "done" /\ InHeatmap
    /\ call.base_img = "imgB" /\ call.base_path = None
    /\ Len(painted) > 0
    /\ FullyTransparent(overlay)
    /\ result.kind = "image"

\* C9: _to_opacity(img, opacity), opacity in [0,1], returns an image whose
\* alpha is the input's times opacity, truncated, within 0..255, and whose
\* R, G, B are the input's; the input image is as it was.
C9_ToOpacityScalesAlphaOnly ==
    Len(opOut) >= 1 =>
        LET out == IF Len(opOut) = 1 THEN opOut[1] ELSE opOut[2]
            o   == IF Len(opOut) = 1 THEN opArgs[1] ELSE opArgs[2]
            in  == IF Len(opOut) = 1 THEN opArgs[3] ELSE opOut[1].px
        IN  /\ opIn.px = opArgs[3]
            /\ \A k \in Pixels(opIn) :
                  /\ out.px[k][4] = (in[k][4] * o.num) \div o.den
                  /\ out.px[k][4] \in 0..255
                  /\ <<out.px[k][1], out.px[k][2], out.px[k][3]>> =
                        <<in[k][1], in[k][2], in[k][3]>>

C9_Witness ==
    /\ Len(opOut) = 1
    /\ opArgs[1] = Rat(3, 4)
    /\ opArgs[3][1][4] = 255
    /\ opOut[1].px[1][4] = 191

Abs(x) == IF x < 0 THEN -x ELSE x

\* C10: applying _to_opacity with o1 and then with o2 gives, at every pixel,
\* an alpha within 1 of a single application with o1 * o2, and the same R, G, B.
C10_OpacityComposes ==
    Len(opOut) = 3 =>
        \A k \in Pixels(opIn) :
           /\ Abs(opOut[2].px[k][4] - opOut[3].px[k][4]) <= 1
           /\ Rgb(opOut[2], k) = Rgb(opOut[3], k)

C10_Witness ==
    /\ Len(opOut) = 3
    /\ opArgs[1] = Rat(3, 4) /\ opArgs[2] = Rat(3, 4)
    /\ opOut[2].px[1][4] # opOut[3].px[1][4]

====
